---- MODULE Spec2Model ----
(***************************************************************************)
(* AIbitat dispatch engine (src/src/index.ts): the ledger of chat records, *)
(* start / continue / retry, the recursive chat() routing, speaker         *)
(* selection for channels and the round bookkeeping.                       *)
(*                                                                         *)
(* One action runs the engine from one suspension point (an awaited        *)
(* provider completion) to the next one, or to the point where the         *)
(* dispatch halts.  The caller awaits every start()/continue()/retry()     *)
(* before issuing the next one.                                            *)
(***************************************************************************)
EXTENDS Integers, Sequences, FiniteSets, TLC

VARIABLES
    chats,            \* this._chats: the ledger
    maxRounds,        \* this.maxRounds
    defaultInterrupt, \* this.defaultInterrupt
    agents,           \* this.agents: name -> interrupt setting
    channels,         \* this.channels: name -> [members, maxRounds]
    functions,        \* this.functions: the names of the registered functions
    messages,         \* handleExecution: the function messages added to the awaited completion
    others,           \* the other dispatches awaiting a provider: [pc, route, messages]
    pc,               \* "idle", or the provider call the engine awaits: "reply" / "select"
    route,            \* the route of the awaited chat() step
    events,           \* events emitted by the emitter since the last API call was made
    calls,            \* provider.complete invocations since the last API call was made
    outcome,          \* how the last API call ended: "none", "pending", "returned", or the error thrown
    op,               \* the last API call made
    before,           \* the ledger as it was when the last API call was made
    initial           \* props.chats: the ledger the engine was constructed with

vars == <<chats, maxRounds, defaultInterrupt, agents, channels, functions,
          messages, others, pc, route, events, calls, outcome, op, before, initial>>

config == <<maxRounds, defaultInterrupt, agents, channels, functions, initial>>

----------------------------------------------------------------------------
(* Bounds of the model *)

MaxChats == 3          \* start() is issued only while the ledger has grown by less than this
MaxGlobalRounds == 3   \* the engine's maxRounds is drawn from 1..MaxGlobalRounds
MaxChannelRounds == 2  \* the channel's maxRounds is drawn from 1..MaxChannelRounds
MaxFunctionCalls == 2  \* a completion answers with a function call at most this often per reply
MaxPending == 1        \* start() is issued during a pending call while at most this many others are suspended

----------------------------------------------------------------------------
(* Names, contents, records *)

AgentNames == {"h", "a", "b", "c"}
ChannelNames == {"g"}
GroupMembers == <<"a", "b", "c">>

NoName == "-"
NoContent == "-"
Unset == "unset"

TERMINATE == "TERMINATE"
INTERRUPT == "INTERRUPT"
PlainText == "..."
SeedText == "2 + 2 = 4?"
FeedbackText == "my feedback"

\* what provider.complete resolves to for a reply
ReplyTexts == {TERMINATE, INTERRUPT, PlainText}

NoRoute == [from |-> NoName, to |-> NoName]

Route(f, t) == [from |-> f, to |-> t]

Reverse_same(r) == r

Reverse(r) == [from |-> r.to, to |-> r.from]

ChatRecord(f, t, c, s) == [from |-> f, to |-> t, content |-> c, state |-> s]

\* src/src/error.ts: Error <- AIbitatError <- APIError <- RetryError
NoError == [class |-> "-", message |-> "-"]

Errors ==
    { [class |-> "RetryError", message |-> "401: Rate limit"],
      [class |-> "Error", message |-> "unknown error"] }

instanceofAPIError_any(error) == TRUE

instanceofAPIError(error) == error.class \in {"APIError", "RetryError"}

EngineError(message) == [class |-> "Error", message |-> message]

Event(ty, f, t, c, e) ==
    [type |-> ty, from |-> f, to |-> t, content |-> c, error |-> e]

\* how an API call stands: "none", "pending", "returned" or "thrown" with the error
Outcome(status, e) == [status |-> status, error |-> e]

Pending == Outcome("pending", NoError)

Returned == Outcome("returned", NoError)

Thrown(e) == Outcome("thrown", e)

Last(s) == s[Len(s)]

Front(s) == SubSeq(s, 1, Len(s) - 1)

----------------------------------------------------------------------------
(* Registries *)

DefaultChannelRounds == 10

getChannelConfig(channel) ==
    [members |-> channels[channel].members,
     maxRounds |-> IF "maxRounds" \in DOMAIN channels[channel]
                   THEN channels[channel].maxRounds
                   ELSE DefaultChannelRounds]

getGroupMembers(node) == getChannelConfig(node).members

shouldAgentInterrupt(agent) ==
    defaultInterrupt = "ALWAYS" \/ agents[agent].interrupt = "ALWAYS"

----------------------------------------------------------------------------
(* History and round bookkeeping *)

getHistory_oneWay(ch, from, to) ==
    SelectSeq(ch, LAMBDA chat :
        LET isSuccess == chat.state = "success" IN
        IF from = NoName THEN isSuccess /\ chat.to = to
        ELSE IF to = NoName THEN isSuccess /\ chat.from = from
        ELSE isSuccess /\ chat.from = from /\ chat.to = to)

getHistory_anyState(ch, from, to) ==
    SelectSeq(ch, LAMBDA chat :
        IF from = NoName THEN chat.to = to
        ELSE IF to = NoName THEN chat.from = from
        ELSE (chat.from = from /\ chat.to = to) \/ (chat.from = to /\ chat.to = from))

getHistory(ch, from, to) ==
    SelectSeq(ch, LAMBDA chat :
        LET isSuccess == chat.state = "success" IN
        IF from = NoName THEN isSuccess /\ chat.to = to
        ELSE IF to = NoName THEN isSuccess /\ chat.from = from
        ELSE isSuccess /\ (   (chat.from = from /\ chat.to = to)
                           \/ (chat.from = to /\ chat.to = from)))

hasReachedMaximumRounds_offByOne(ch, from, to) ==
    Len(getHistory(ch, from, to)) > maxRounds

hasReachedMaximumRounds_engineOnly(ch, from, to) ==
    Len(getHistory(SubSeq(ch, Len(initial) + 1, Len(ch)), from, to)) >= maxRounds

hasReachedMaximumRounds(ch, from, to) ==
    Len(getHistory(ch, from, to)) >= maxRounds

----------------------------------------------------------------------------
(* The ledger and the emitter.  st is the pair [chats, events] a handler   *)
(* threads through its synchronous code.                                   *)

Now == [chats |-> chats, events |-> events]

Entry == [chats |-> chats, events |-> <<>>]

terminate_pausing(st, node) ==
    [chats |-> Append(st.chats, ChatRecord(node, NoName, NoContent, "interrupt")),
     events |-> Append(st.events, Event("terminate", NoName, node, NoContent, NoError))]

terminate(st, node) ==
    [chats |-> st.chats,
     events |-> Append(st.events, Event("terminate", NoName, node, NoContent, NoError))]

interrupt_replacesLast(st, r) ==
    [chats |-> Append(Front(st.chats), ChatRecord(r.from, r.to, NoContent, "interrupt")),
     events |-> Append(st.events, Event("interrupt", r.from, r.to, NoContent, NoError))]

interrupt(st, r) ==
    [chats |-> Append(st.chats, ChatRecord(r.from, r.to, NoContent, "interrupt")),
     events |-> Append(st.events, Event("interrupt", r.from, r.to, NoContent, NoError))]

newMessage_silent(st, message) ==
    [chats |-> Append(st.chats,
                      ChatRecord(message.from, message.to, message.content, "success")),
     events |-> st.events]

newMessage(st, message) ==
    [chats |-> Append(st.chats,
                      ChatRecord(message.from, message.to, message.content, "success")),
     events |-> Append(st.events,
                       Event("message", message.from, message.to, message.content,
                             NoError))]

newError_asMessage(st, r, error) ==
    [chats |-> Append(st.chats, ChatRecord(r.from, r.to, error.message, "success")),
     events |-> Append(st.events,
                       Event("message", r.from, r.to, error.message, NoError))]

newError_reversed(st, r, error) ==
    [chats |-> Append(st.chats, ChatRecord(r.to, r.from, error.message, "error")),
     events |-> Append(st.events,
                       Event("replyError", r.to, r.from, error.message, error))]

newError_terminating(st, r, error) ==
    [chats |-> Append(st.chats, ChatRecord(r.from, r.to, error.message, "error")),
     events |-> st.events \o
                <<Event("replyError", r.from, r.to, error.message, error),
                  Event("terminate", NoName, r.to, NoContent, NoError)>>]

newError(st, r, error) ==
    [chats |-> Append(st.chats, ChatRecord(r.from, r.to, error.message, "error")),
     events |-> Append(st.events,
                       Event("replyError", r.from, r.to, error.message, error))]

emitStart(st, message) ==
    [chats |-> st.chats,
     events |-> Append(st.events,
                       Event("start", message.from, message.to, message.content,
                             NoError))]

----------------------------------------------------------------------------
(* Speaker selection: the synchronous part of selectNext before the        *)
(* provider is asked, and the use made of its answer.                      *)

RECURSIVE indexOf(_, _, _)
indexOf(s, x, i) ==
    IF i > Len(s) THEN 0
    ELSE IF s[i] = x THEN i
    ELSE indexOf(s, x, i + 1)

splice(s, i) == SubSeq(s, 1, i - 1) \o SubSeq(s, i + 1, Len(s))

availableNodes_keepsLast(ch, channel) ==
    LET nodes == getGroupMembers(channel)
        notReached == SelectSeq(nodes,
                          LAMBDA node : ~hasReachedMaximumRounds(ch, channel, node))
        toChannel == SelectSeq(ch, LAMBDA c : c.to = channel)
    IN  IF Len(toChannel) = 0 \/ Len(notReached) <= 1 THEN notReached
        ELSE LET index == indexOf(notReached, Last(toChannel).from, 1)
             IN  IF index > 0 THEN splice(notReached, index) ELSE notReached

availableNodes(ch, channel) ==
    LET nodes == getGroupMembers(channel)
        notReached == SelectSeq(nodes,
                          LAMBDA node : ~hasReachedMaximumRounds(ch, channel, node))
        toChannel == SelectSeq(ch, LAMBDA c : c.to = channel)
    IN  IF Len(toChannel) = 0 THEN notReached
        ELSE LET index == indexOf(notReached, Last(toChannel).from, 1)
             IN  IF index > 0 THEN splice(notReached, index) ELSE notReached

\* result.replace(/^@/g, ''): the answer is a sequence of symbols
stripAt(result) ==
    IF Len(result) > 0 /\ result[1] = "@" THEN Tail(result) ELSE result

selectedName(ch, channel, result, pick) ==
    LET name == stripAt(result) IN
    IF Len(name) = 1 /\ name[1] \in DOMAIN agents
    THEN name[1]
    ELSE availableNodes(ch, channel)[pick]

channelRounds_anySender(ch, channel) == Len(getHistory(ch, NoName, channel))

channelRounds(ch, channel) ==
    LET history == getHistory(ch, NoName, channel)
        group == getGroupMembers(channel)
    IN  Len(SelectSeq(history,
                LAMBDA c : \E i \in 1..Len(group) : group[i] = c.from))

----------------------------------------------------------------------------
(* chat(): the dispatch                                                    *)

Halt(st, n, out) ==
    /\ chats' = st.chats
    /\ events' = st.events
    /\ calls' = n
    /\ pc' = "idle"
    /\ route' = NoRoute
    /\ outcome' = out
    /\ messages' = <<>>

\* provider.complete is invoked and awaited
Await(p, r, st, n) ==
    /\ chats' = st.chats
    /\ events' = st.events
    /\ calls' = n + 1
    /\ pc' = p
    /\ route' = r
    /\ outcome' = Pending
    /\ messages' = <<>>

chat_alwaysSelects(r, st, n) ==
    IF r.from \in DOMAIN channels
    THEN Await("select", r, st, n)
    ELSE IF r.from \notin DOMAIN agents
         THEN Halt(st, n, Thrown(EngineError("Agent configuration not found")))
         ELSE Await("reply", r, st, n)

\* chat(route) up to its first await
chat(r, st, n) ==
    IF r.from \in DOMAIN channels
    THEN IF Len(availableNodes(st.chats, r.from)) = 0
         THEN Halt(terminate(st, r.from), n, Returned)
         ELSE Await("select", r, st, n)
    ELSE IF r.from \notin DOMAIN agents
         THEN Halt(st, n, Thrown(EngineError("Agent configuration not found")))
         ELSE Await("reply", r, st, n)

shouldTerminate_roundsOnly(reply, ch, r) ==
    hasReachedMaximumRounds(ch, r.from, r.to)

shouldTerminate(reply, ch, r) ==
    reply = TERMINATE \/ hasReachedMaximumRounds(ch, r.from, r.to)

shouldInterrupt_sentinelOnly(reply, r) == reply = INTERRUPT

shouldInterrupt_policyOnly(reply, r) ==
    r.to \in DOMAIN agents /\ shouldAgentInterrupt(r.to)

shouldInterrupt(reply, r) ==
    reply = INTERRUPT \/ (r.to \in DOMAIN agents /\ shouldAgentInterrupt(r.to))

\* fromConfig.functions?.map(name => this.functions.get(name)).filter(a => !!a)
resolvedFunctions(agent) ==
    IF "functions" \in DOMAIN agents[agent]
    THEN SelectSeq(agents[agent].functions, LAMBDA name : name \in functions)
    ELSE <<>>

\* the names a completion may ask to call
FunctionNames == {"f", "k", "x"}

NotFound == "Function not found. Try again."

\* what the handler of a function resolves to
HandlerResult == "result"

FunctionMessage(name, content) == [name |-> name, role |-> "function", content |-> content]

chatFunctionCall_recorded(name) ==
    /\ pc = "reply"
    /\ Len(messages) < MaxFunctionCalls
    /\ messages' = Append(messages,
                          IF name \in functions
                          THEN FunctionMessage(name, HandlerResult)
                          ELSE FunctionMessage(name, NotFound))
    /\ chats' = Append(chats, ChatRecord(route.from, route.to,
                                         Last(messages').content, "success"))
    /\ calls' = calls + 1
    /\ UNCHANGED <<config, events, pc, route, outcome, op, before, others>>

\* the awaited completion resolves with a function call: handleExecution runs
\* the handler or reports the name as not found, and awaits the next completion
chatFunctionCall(name) ==
    /\ pc = "reply"
    /\ Len(messages) < MaxFunctionCalls
    /\ messages' = Append(messages,
                          IF name \in functions
                          THEN FunctionMessage(name, HandlerResult)
                          ELSE FunctionMessage(name, NotFound))
    /\ calls' = calls + 1
    /\ UNCHANGED <<config, chats, events, pc, route, outcome, op, before, others>>

chatReply_ignored(content) ==
    /\ pc = "reply"
    /\ UNCHANGED vars

\* the awaited reply resolves with plain text
chatReply(content) ==
    /\ pc = "reply"
    /\ LET st1 == newMessage(Now, [from |-> route.from, to |-> route.to,
                                   content |-> content])
       IN  IF shouldTerminate(content, st1.chats, route)
           THEN Halt(terminate(st1, route.to), calls, Returned)
           ELSE IF shouldInterrupt(content, route)
           THEN Halt(interrupt(st1, Reverse(route)), calls, Returned)
           ELSE chat(Reverse(route), st1, calls)
    /\ UNCHANGED <<config, op, before, others>>

\* the awaited reply rejects: catch (error) { if (error instanceof APIError) ... throw error }
chatReplyRejected(error) ==
    /\ pc = "reply"
    /\ IF instanceofAPIError(error)
       THEN Halt(newError(Now, route, error), calls, Returned)
       ELSE Halt(Now, calls, Thrown(error))
    /\ UNCHANGED <<config, op, before, others>>

SelectResults ==
    {<<n>> : n \in AgentNames \cup ChannelNames \cup {"nobody"}}
    \cup {<<"@", n>> : n \in AgentNames}

\* the awaited speaker selection resolves
chatSelect(result, pick) ==
    /\ pc = "select"
    /\ pick \in 1..Len(availableNodes(chats, route.from))
    /\ LET nextNode == selectedName(chats, route.from, result, pick)
           nextChat == Route(nextNode, route.from)
       IN  IF shouldAgentInterrupt(nextNode)
           THEN Halt(interrupt(Now, nextChat), calls, Returned)
           ELSE IF channelRounds(chats, route.from)
                     >= getChannelConfig(route.from).maxRounds
           THEN Halt(terminate(Now, route.to), calls, Returned)
           ELSE chat(nextChat, Now, calls)
    /\ UNCHANGED <<config, op, before, others>>

\* the awaited speaker selection rejects
chatSelectRejected(error) ==
    /\ pc = "select"
    /\ IF instanceofAPIError(error)
       THEN Halt(newError(Now, route, error), calls, Returned)
       ELSE Halt(Now, calls, Thrown(error))
    /\ UNCHANGED <<config, op, before, others>>

----------------------------------------------------------------------------
(* The public entry points *)

StartRoutes == {Route("h", "a"), Route("a", "b"), Route("h", "g")}

Messages == {[from |-> r.from, to |-> r.to, content |-> SeedText] : r \in StartRoutes}

Undefined == "undefined"

Feedbacks == {Undefined, FeedbackText}

Truthy(x) == x # Undefined /\ x # ""

noChatToContinue_emptyOnly(ch) == Len(ch) = 0

noChatToContinue(ch) == Len(ch) = 0 \/ Last(ch).state # "interrupt"

noChatToRetry(ch) == Len(ch) = 0 \/ Last(ch).state # "error"

\* the route continue() dispatches: the reversed route after a feedback
\* message, the interrupted route itself otherwise
resumeRoute_sameRoute(lastChat, feedback) == Route(lastChat.from, lastChat.to)

resumeRoute_reversed(lastChat, feedback) == Route(lastChat.to, lastChat.from)

resumeRoute(lastChat, feedback) ==
    IF Truthy(feedback)
    THEN Route(lastChat.to, lastChat.from)
    ELSE Route(lastChat.from, lastChat.to)

start(message) ==
    /\ pc = "idle"
    /\ Len(chats) - Len(initial) < MaxChats
    /\ op' = [name |-> "start", feedback |-> Undefined]
    /\ before' = chats
    /\ chat(Route(message.to, message.from),
            emitStart(newMessage(Entry, message), message), 0)
    /\ UNCHANGED <<config, others>>

continue(feedback) ==
    /\ pc = "idle"
    /\ Len(chats) - Len(initial) <= MaxChats
    /\ op' = [name |-> "continue", feedback |-> feedback]
    /\ before' = chats
    /\ IF noChatToContinue(chats)
       THEN Halt(Entry, 0, Thrown(EngineError("No chat to continue")))
       ELSE LET lastChat == Last(chats)
                popped == [chats |-> Front(chats), events |-> <<>>]
            IN  IF hasReachedMaximumRounds(popped.chats, lastChat.from, lastChat.to)
                THEN Halt(popped, 0, Thrown(EngineError("Maximum rounds reached")))
                ELSE IF Truthy(feedback)
                THEN chat(resumeRoute(lastChat, feedback),
                          newMessage(popped, [from |-> lastChat.from,
                                              to |-> lastChat.to,
                                              content |-> feedback]), 0)
                ELSE chat(resumeRoute(lastChat, feedback), popped, 0)
    /\ UNCHANGED <<config, others>>

retry_keepsError ==
    /\ pc = "idle"
    /\ Len(chats) - Len(initial) <= MaxChats
    /\ op' = [name |-> "retry", feedback |-> Undefined]
    /\ before' = chats
    /\ IF noChatToRetry(chats)
       THEN Halt(Entry, 0, Thrown(EngineError("No chat to retry")))
       ELSE chat(Route(Last(chats).from, Last(chats).to), Entry, 0)
    /\ UNCHANGED <<config, others>>

retry ==
    /\ pc = "idle"
    /\ Len(chats) - Len(initial) <= MaxChats
    /\ op' = [name |-> "retry", feedback |-> Undefined]
    /\ before' = chats
    /\ IF noChatToRetry(chats)
       THEN Halt(Entry, 0, Thrown(EngineError("No chat to retry")))
       ELSE chat(Route(Last(chats).from, Last(chats).to),
                 [chats |-> Front(chats), events |-> <<>>], 0)
    /\ UNCHANGED <<config, others>>

\* the dispatch suspended at the awaited provider call
Suspended == [pc |-> pc, route |-> route, messages |-> messages]

\* start() called while an earlier call still awaits its provider: nothing in
\* start() or chat() looks at the dispatches in flight
startWhilePending(message) ==
    /\ pc # "idle"
    /\ Len(others) < MaxPending
    /\ Len(chats) - Len(initial) < MaxChats
    /\ others' = Append(others, Suspended)
    /\ op' = [name |-> "start", feedback |-> Undefined]
    /\ before' = chats
    /\ chat(Route(message.to, message.from),
            emitStart(newMessage(Entry, message), message), 0)
    /\ UNCHANGED config

\* the provider call of a suspended dispatch is the next one to settle
settleOther(i) ==
    /\ i \in 1..Len(others)
    /\ pc' = others[i].pc
    /\ route' = others[i].route
    /\ messages' = others[i].messages
    /\ others' = IF pc = "idle"
                 THEN splice(others, i)
                 ELSE [others EXCEPT ![i] = Suspended]
    /\ UNCHANGED <<config, chats, events, calls, outcome, op, before>>

----------------------------------------------------------------------------
(* Construction *)

\* "b" lists the registered function "f" and the name "x" nobody registered
AgentConfigs ==
    { [h |-> [interrupt |-> "ALWAYS"], a |-> [interrupt |-> Unset],
       b |-> [interrupt |-> "NEVER", functions |-> <<"f", "x">>],
       c |-> [interrupt |-> "ALWAYS"]] }

\* the functions registered with function()
RegisteredFunctions == {"f", "k"}

InitialChats == {<<>>}

\* a group conversation saved while "a" was paused: "b" and "c" addressed
\* the channel twice each
SeededChats ==
    { << ChatRecord("b", "g", PlainText, "success"),
         ChatRecord("c", "g", PlainText, "success"),
         ChatRecord("b", "g", PlainText, "success"),
         ChatRecord("c", "g", PlainText, "success"),
         ChatRecord("a", "g", NoContent, "interrupt") >> }

\* the global limits under which "b" and "c" have no round left in SeededChats
SeededRounds == {1, 2}

Constructed(initialChats, rounds) ==
    /\ chats \in initialChats
    /\ initial = chats
    /\ maxRounds \in rounds
    /\ defaultInterrupt \in {"NEVER", "ALWAYS"}
    /\ agents \in AgentConfigs
    /\ functions = RegisteredFunctions
    /\ messages = <<>>
    /\ others = <<>>
    /\ channels \in {[g |-> [members |-> GroupMembers, maxRounds |-> m]] :
                        m \in 1..MaxChannelRounds}
    /\ pc = "idle"
    /\ route = NoRoute
    /\ events = <<>>
    /\ calls = 0
    /\ outcome = Outcome("none", NoError)
    /\ op = [name |-> "none", feedback |-> Undefined]
    /\ before = chats

Init == Constructed(InitialChats, 1..MaxGlobalRounds)

InitSeeded == Constructed(SeededChats, SeededRounds)

Next ==
    \/ \E message \in Messages : start(message)
    \/ \E feedback \in Feedbacks : continue(feedback)
    \/ retry
    \/ \E content \in ReplyTexts : chatReply(content)
    \/ \E error \in Errors : chatReplyRejected(error)
    \/ \E result \in SelectResults, pick \in 1..Len(GroupMembers) : chatSelect(result, pick)
    \/ \E error \in Errors : chatSelectRejected(error)

Spec == Init /\ [][Next]_vars

\* the engine with a provider that may answer a reply with a function call
FunctionRounds == {1, 2}

InitFunctions == Constructed(InitialChats, FunctionRounds)

NextFunctions ==
    \/ Next
    \/ \E name \in FunctionNames : chatFunctionCall(name)

SpecFunctions == InitFunctions /\ [][NextFunctions]_vars

\* direct conversations with the agent that is offered functions, and a
\* provider that may ask for function calls
DirectMessages == {message \in Messages : message.to = "b"}

DirectRounds == {3}

InitDirect == Constructed(InitialChats, DirectRounds)

NextDirect ==
    \/ \E message \in DirectMessages : start(message)
    \/ \E feedback \in Feedbacks : continue(feedback)
    \/ retry
    \/ \E content \in ReplyTexts : chatReply(content)
    \/ \E error \in Errors : chatReplyRejected(error)
    \/ \E name \in FunctionNames : chatFunctionCall(name)

SpecDirect == InitDirect /\ [][NextDirect]_vars

\* the engine constructed with a saved conversation that was paused, under a
\* maxRounds that the saved records may already have reached
ResumedChats ==
    {<<ChatRecord("h", "a", SeedText, "success"),
       ChatRecord("a", "h", PlainText, "success"),
       ChatRecord("h", "a", NoContent, "interrupt")>>}

ResumedRounds == {2, 3}

InitResumed == Constructed(ResumedChats, ResumedRounds)

SpecResumed == InitResumed /\ [][NextDirect]_vars

\* the engine with a caller that also names a participant never registered
Unregistered == "u"

UnregisteredRoutes == {Route(Unregistered, "a"), Route("a", Unregistered),
                       Route(Unregistered, "g")}

UnregisteredMessages ==
    {[from |-> r.from, to |-> r.to, content |-> SeedText] : r \in UnregisteredRoutes}

UnregisteredRounds == {1, 2}

InitUnregistered == Constructed(InitialChats, UnregisteredRounds)

NextUnregistered ==
    \/ Next
    \/ \E message \in UnregisteredMessages : start(message)

SpecUnregistered == InitUnregistered /\ [][NextUnregistered]_vars

\* the engine with a caller that does not await a call before the next start()
ReentrantRounds == {1}

InitReentrant == Constructed(InitialChats, ReentrantRounds)

NextReentrant ==
    \/ Next
    \/ \E message \in Messages : startWhilePending(message)
    \/ \E i \in 1..MaxPending : settleOther(i)

SpecReentrant == InitReentrant /\ [][NextReentrant]_vars

\* the engine constructed with a saved history
SpecSeeded == InitSeeded /\ [][Next]_vars

\* the provider resolves every request with text: no function call, no rejection
NextPlain ==
    \/ \E message \in Messages : start(message)
    \/ \E feedback \in Feedbacks : continue(feedback)
    \/ \E content \in ReplyTexts : chatReply(content)
    \/ \E result \in SelectResults, pick \in 1..Len(GroupMembers) : chatSelect(result, pick)

\* every awaited provider call settles
SpecPlain ==
    /\ Init
    /\ [][NextPlain]_vars
    /\ WF_vars(\E content \in ReplyTexts : chatReply(content))
    /\ WF_vars(\E result \in SelectResults, pick \in 1..Len(GroupMembers) :
                  chatSelect(result, pick))

\* the engine constructed with one earlier message between "h" and "a"
HistoryChats == {<<ChatRecord("h", "a", SeedText, "success")>>}

HistoryRounds == {1, 3}

InitHistory == Constructed(HistoryChats, HistoryRounds)

SpecHistory == InitHistory /\ [][Next]_vars

----------------------------------------------------------------------------
(* Properties *)

Idle == pc = "idle"

TailIs(state) == Len(chats) > 0 /\ Last(chats).state = state

\* the step is the API call named n (API calls are made only when idle)
IsCall(n) == pc = "idle" /\ op'.name = n

\* the step resumes the awaited reply with plain text c
RepliesWith(c) ==
    /\ pc = "reply"
    /\ Len(chats') > Len(chats)
    /\ chats'[Len(chats) + 1] = ChatRecord(route.from, route.to, c, "success")

TerminateReplyAtTail == TailIs("success") /\ Last(chats).content = TERMINATE

\* C1: a direct reply equal to TERMINATE is appended, the terminate event for
\* the recipient is emitted and the dispatch halts with that reply as the last
\* ledger entry; the ledger then stays as it is (continue() and retry() change
\* nothing) until start() is called again.
C1_TerminateHalts ==
    [][ /\ RepliesWith(TERMINATE) =>
            /\ chats' = Append(chats, ChatRecord(route.from, route.to,
                                                 TERMINATE, "success"))
            /\ pc' = "idle"
            /\ outcome' = Returned
            /\ Last(events') = Event("terminate", NoName, route.to, NoContent, NoError)
        /\ TerminateReplyAtTail => pc = "idle"
        /\ (TerminateReplyAtTail /\ ~IsCall("start")) => chats' = chats
      ]_vars

C1_Witness ==
    /\ TerminateReplyAtTail
    /\ op.name = "continue"
    /\ outcome = Thrown(EngineError("No chat to continue"))
    /\ before = chats

Names == AgentNames \cup ChannelNames

Max(x, y) == IF x >= y THEN x ELSE y

Rounds(ch, a, b) == Len(getHistory(ch, a, b))

TerminateEmitted(node) ==
    Len(events) > 0 /\ Last(events) = Event("terminate", NoName, node, NoContent, NoError)

\* C2 as stated: for every pair the number of success records between the
\* two never exceeds the global maxRounds.
C2_Original ==
    \A a \in Names, b \in Names : Rounds(chats, a, b) <= maxRounds

\* C2, amended: the limit is checked after a direct reply has been appended.  A
\* reply that brings the pair to maxRounds success records or more is appended
\* and then terminate is emitted and the dispatch halts; start() and
\* continue(feedback) append their message unchecked, so during one API call a
\* pair holds at most max(maxRounds, what it held when the call was made + 2).
C2_RoundLimit ==
    /\ [](\A i \in 1..Len(chats) :
            Rounds(chats, chats[i].from, chats[i].to)
                <= Max(maxRounds, Rounds(before, chats[i].from, chats[i].to) + 2))
    /\ [][\A c \in ReplyTexts :
            (/\ RepliesWith(c)
             /\ Rounds(Append(chats, ChatRecord(route.from, route.to, c, "success")),
                       route.from, route.to) >= maxRounds)
            => /\ chats' = Append(chats, ChatRecord(route.from, route.to, c, "success"))
               /\ pc' = "idle"
               /\ Last(events') = Event("terminate", NoName, route.to, NoContent, NoError)
         ]_vars

C2_Witness ==
    /\ Idle
    /\ Rounds(chats, "h", "a") > maxRounds
    /\ Last(chats).content = PlainText
    /\ TerminateEmitted(Last(chats).to)

\* C3 as stated: a channel never holds more than its maxRounds success records
\* addressed to it by its members.
C3_ChannelRoundBound ==
    \A channel \in DOMAIN channels :
        channelRounds(chats, channel) <= getChannelConfig(channel).maxRounds

MaximumRoundsReached == Thrown(EngineError("Maximum rounds reached"))

\* the step is continue() called on an interrupt tail, without / with feedback
ContinuesPlain == IsCall("continue") /\ TailIs("interrupt") /\ ~Truthy(op'.feedback)

ContinuesWithFeedback == IsCall("continue") /\ TailIs("interrupt") /\ Truthy(op'.feedback)

\* the last call was continue() / continue(feedback) / retry() on a paused tail
\* and is still in flight
ResumedPlain ==
    /\ op.name = "continue" /\ ~Truthy(op.feedback) /\ outcome = Pending

ResumedWithFeedback ==
    /\ op.name = "continue" /\ Truthy(op.feedback) /\ outcome = Pending

Retried == op.name = "retry" /\ outcome = Pending

\* the step appends a first record after the call popped the tail
FirstAppend == chats = Front(before) /\ Len(chats') > Len(chats)

\* C4 as stated: continue() without feedback pops the interrupt record for
\* {a,b} and resumes dispatch on {from: a, to: b}, and the next record appended
\* is a's reply to b, at the index the interrupt record had (a call that fails
\* with "Maximum rounds reached" aside).
C4_Original ==
    [][ /\ (ContinuesPlain /\ outcome'.status # "thrown") =>
            /\ chats' = Front(chats)
            /\ outcome' = Pending => route' = Route(Last(chats).from, Last(chats).to)
        /\ (ResumedPlain /\ FirstAppend) =>
            \E c \in ReplyTexts :
                chats'[Len(before)] =
                    ChatRecord(Last(before).from, Last(before).to, c, "success")
      ]_vars

\* C4, amended: continue() without feedback pops the interrupt record for
\* {a,b}; if the pair has reached the maximum rounds the call fails there,
\* otherwise it resumes dispatch on {from: a, to: b}.  When a is an agent the
\* provider is asked for a's reply and the next record appended is for that
\* turn, a's reply to b or its error record, at the index the interrupt record
\* had.  When a is a channel the speaker selection of a is run again (or the
\* dispatch terminates at once when a has no member left to speak).
C4_ContinueResumes ==
    [][ /\ ContinuesPlain =>
            LET a == Last(chats).from
                b == Last(chats).to
            IN  /\ chats' = Front(chats)
                /\ IF Rounds(Front(chats), a, b) >= maxRounds
                   THEN outcome' = MaximumRoundsReached /\ pc' = "idle"
                   ELSE /\ a \in DOMAIN agents =>
                            pc' = "reply" /\ route' = Route(a, b) /\ calls' = 1
                        /\ a \in DOMAIN channels =>
                            \/ pc' = "select" /\ route' = Route(a, b) /\ calls' = 1
                            \/ /\ pc' = "idle" /\ outcome' = Returned /\ calls' = 0
                               /\ events' = <<Event("terminate", NoName, a,
                                                    NoContent, NoError)>>
        /\ (ResumedPlain /\ FirstAppend /\ pc = "reply" /\ calls = 1) =>
            /\ SubSeq(chats', 1, Len(before) - 1) = Front(before)
            /\ chats'[Len(before)].from = Last(before).from
            /\ chats'[Len(before)].to = Last(before).to
            /\ chats'[Len(before)].state \in {"success", "error"}
      ]_vars

C4_Witness ==
    /\ op.name = "continue" /\ ~Truthy(op.feedback)
    /\ Len(before) > 0 /\ Last(before).state = "interrupt"
    /\ Len(chats) >= Len(before)
    /\ chats[Len(before)] =
           ChatRecord(Last(before).from, Last(before).to, PlainText, "success")

\* C5 as stated: continue(feedback) replaces the interrupt record {a,b} by the
\* success record {a, b, feedback} at the same index and dispatches the
\* reversed route, and the next reply comes from b to a (a call that fails
\* with "Maximum rounds reached" aside).
C5_Original ==
    [][ /\ (ContinuesWithFeedback /\ outcome'.status # "thrown") =>
            /\ chats' = Append(Front(chats),
                               ChatRecord(Last(chats).from, Last(chats).to,
                                          op'.feedback, "success"))
            /\ outcome' = Pending => route' = Route(Last(chats).to, Last(chats).from)
        /\ (/\ ResumedWithFeedback
            /\ Len(chats) = Len(before)
            /\ Len(chats') > Len(chats)
            /\ chats'[Len(chats) + 1].state = "success") =>
            /\ chats'[Len(chats) + 1].from = Last(before).to
            /\ chats'[Len(chats) + 1].to = Last(before).from
      ]_vars

\* C5, amended: when the pair has not reached the maximum rounds,
\* continue(feedback) replaces the interrupt record {a,b} by the success record
\* {a, b, feedback} at the same index and dispatches the reversed route
\* {from: b, to: a}.  When b is an agent the next reply comes from b to a; when
\* b is a channel its speaker selection runs and the next reply comes from the
\* selected agent, addressed to b.  When the pair has reached the maximum
\* rounds the call fails after popping the interrupt record.
C5_FeedbackReplaces ==
    [][ /\ ContinuesWithFeedback =>
            LET a == Last(chats).from
                b == Last(chats).to
            IN  IF Rounds(Front(chats), a, b) >= maxRounds
                THEN chats' = Front(chats) /\ outcome' = MaximumRoundsReached
                ELSE /\ chats' = Append(Front(chats),
                                        ChatRecord(a, b, op'.feedback, "success"))
                     /\ events'[1] = Event("message", a, b, op'.feedback, NoError)
                     /\ outcome' = Pending => route' = Route(b, a)
                     /\ b \in DOMAIN agents => outcome' = Pending /\ pc' = "reply"
                     /\ b \in DOMAIN channels => pc' \in {"select", "idle"}
        /\ (/\ ResumedWithFeedback
            /\ Len(chats) = Len(before)
            /\ Len(chats') > Len(chats)
            /\ chats'[Len(chats) + 1].state = "success") =>
            LET a == Last(before).from
                b == Last(before).to
                reply == chats'[Len(chats) + 1]
            IN  /\ b \in DOMAIN agents => reply.from = b /\ reply.to = a
                /\ b \in DOMAIN channels =>
                       reply.from \in DOMAIN agents /\ reply.to = b /\ calls = 2
      ]_vars

C5_Witness ==
    /\ op.name = "continue" /\ Truthy(op.feedback)
    /\ Len(before) > 0 /\ Last(before).state = "interrupt"
    /\ Len(chats) > Len(before)
    /\ chats[Len(before)] =
           ChatRecord(Last(before).from, Last(before).to, op.feedback, "success")
    /\ chats[Len(before) + 1] =
           ChatRecord(Last(before).to, Last(before).from, PlainText, "success")

IsAPIErrorClass(e) == e.class \in {"APIError", "RetryError"}

\* C6: retry() on an error tail {a,b} pops the error record and dispatches
\* {from: a, to: b} again; when the re-issued turn succeeds its reply sits at
\* the index the error record had, after the unchanged earlier records, so the
\* step is recorded once and the ledger is as long as before retry().
C6_RetryReplacesError ==
    [][ /\ (IsCall("retry") /\ TailIs("error")) =>
            /\ chats' = Front(chats)
            /\ events' = <<>>
            /\ outcome' = Pending
            /\ route' = Route(Last(chats).from, Last(chats).to)
            /\ calls' = 1
        /\ (/\ Retried /\ FirstAppend
            /\ chats'[Len(chats) + 1].state = "success") =>
            /\ SubSeq(chats', 1, Len(before) - 1) = Front(before)
            /\ chats'[Len(before)].state = "success"
            /\ chats'[Len(before)].to = route.to
            /\ chats'[Len(before)].from = route.from
            /\ Last(before).from \in DOMAIN agents =>
                   /\ chats'[Len(before)].from = Last(before).from
                   /\ chats'[Len(before)].to = Last(before).to
                   /\ calls = 1
      ]_vars

C6_Witness ==
    /\ op.name = "retry" /\ outcome = Returned
    /\ Len(before) > 0 /\ Last(before).state = "error"
    /\ Len(chats) = Len(before)
    /\ Last(chats) = ChatRecord(Last(before).from, Last(before).to, TERMINATE, "success")
    /\ \A i \in 1..Len(chats) : chats[i].state = "success"

\* C7: when the awaited direct reply fails with a classified API error the
\* engine appends exactly the error record {route.from, route.to, message,
\* error}, emits the error event once with the raw error, and halts without
\* another provider call; an error record at the tail means the engine is idle.
C7_APIErrorRecorded ==
    /\ [](TailIs("error") => pc = "idle")
    /\ [][\A e \in Errors :
            (IsAPIErrorClass(e) /\ chatReplyRejected(e)) =>
                /\ chats' = Append(chats, ChatRecord(route.from, route.to,
                                                     e.message, "error"))
                /\ events' = Append(events, Event("replyError", route.from, route.to,
                                                  e.message, e))
                /\ pc' = "idle"
                /\ outcome' = Returned
                /\ calls' = calls
         ]_vars

C7_Witness ==
    /\ Idle /\ TailIs("error") /\ outcome = Returned
    /\ Last(chats).from \in DOMAIN agents
    /\ Last(chats).content = "401: Rate limit"
    /\ Last(events).type = "replyError"
    /\ Last(events).error.class = "RetryError"
    /\ calls >= 1

\* C8: an exception of the provider that is not an APIError propagates out of
\* the API call in flight: no record is appended and no event is emitted.
C8_UnknownErrorEscapes ==
    [][\A e \in Errors :
          (/\ ~IsAPIErrorClass(e)
           /\ (chatReplyRejected(e) \/ chatSelectRejected(e))) =>
              /\ chats' = chats
              /\ events' = events
              /\ outcome' = Thrown(e)
              /\ pc' = "idle"
      ]_vars

C8_Witness ==
    /\ Idle
    /\ outcome = Thrown([class |-> "Error", message |-> "unknown error"])
    /\ calls >= 1
    /\ Len(chats) > 0
    /\ \A i \in 1..Len(chats) : chats[i].state # "error"
    /\ \A i \in 1..Len(events) : events[i].type # "replyError"

\* C9: continue() goes ahead only on an interrupt tail and retry() only on an
\* error tail; on any other ledger the call throws, the ledger is unchanged and
\* the provider is not called.
C9_ResumeNeedsPausedTail ==
    [][ /\ (IsCall("continue") /\ ~TailIs("interrupt")) =>
            /\ outcome' = Thrown(EngineError("No chat to continue"))
            /\ chats' = chats /\ calls' = 0 /\ pc' = "idle" /\ events' = <<>>
        /\ (IsCall("retry") /\ ~TailIs("error")) =>
            /\ outcome' = Thrown(EngineError("No chat to retry"))
            /\ chats' = chats /\ calls' = 0 /\ pc' = "idle" /\ events' = <<>>
        /\ (IsCall("continue") /\ outcome'.status # "thrown") => TailIs("interrupt")
        /\ (IsCall("retry") /\ outcome'.status # "thrown") => TailIs("error")
      ]_vars

C9_Witness ==
    /\ op.name = "continue"
    /\ outcome = Thrown(EngineError("No chat to continue"))
    /\ TailIs("error")
    /\ chats = before
    /\ calls = 0

\* C10 as stated: the ledger holds at most one record in state error or
\* interrupt, and such a record is the last one.
C10_PausedRecordOnlyAtTail ==
    \A i \in 1..Len(chats) : chats[i].state # "success" => i = Len(chats)

----------------------------------------------------------------------------
(* Interrupt policy *)

\* the policy of an agent as documented: its own setting when it has one,
\* the engine default otherwise
ResolvedPolicy(agent) ==
    IF agents[agent].interrupt # Unset
    THEN agents[agent].interrupt
    ELSE defaultInterrupt

\* the step appends an interrupt record although no reply asked for it
InterruptsByPolicy ==
    /\ pc \in {"reply", "select"}
    /\ Len(chats') > Len(chats)
    /\ Last(chats').state = "interrupt"
    /\ ~RepliesWith(INTERRUPT)

\* the reply of this step leaves the pair below the global round limit
BelowRoundLimit(c) ==
    ~hasReachedMaximumRounds(
        Append(chats, ChatRecord(route.from, route.to, c, "success")),
        route.from, route.to)

\* C11: an agent's interrupt policy is its explicit setting when it has one
\* and the engine default otherwise: an agent interrupts on account of its
\* policy only when that resolved policy is ALWAYS (so an agent registered with
\* NEVER does not interrupt under an engine default of ALWAYS), and an agent
\* without a setting does so exactly when the engine default is ALWAYS.
C11_ExplicitSettingWins ==
    [][ /\ InterruptsByPolicy => ResolvedPolicy(Last(chats').from) = "ALWAYS"
        /\ ( /\ RepliesWith(PlainText)
             /\ BelowRoundLimit(PlainText)
             /\ route.to \in DOMAIN agents
             /\ agents[route.to].interrupt = Unset )
           => (Last(chats').state = "interrupt" <=> defaultInterrupt = "ALWAYS")
      ]_vars

----------------------------------------------------------------------------
(* Speaker selection *)

Members(channel) ==
    {getGroupMembers(channel)[i] : i \in 1..Len(getGroupMembers(channel))}

\* the members of the channel that have rounds left with it
EligibleMembers(ch, channel) ==
    {m \in Members(channel) : ~hasReachedMaximumRounds(ch, channel, m)}

\* the step resumes the awaited speaker selection and n is given the turn:
\* n is asked for its reply, or pauses as the speaker
SpeakerSelected(n) ==
    /\ pc = "select"
    /\ \/ pc' = "reply" /\ route'.from = n
       \/ /\ Len(chats') > Len(chats)
          /\ Last(chats') = ChatRecord(n, route.from, NoContent, "interrupt")

AddressedTo(ch, node) == SelectSeq(ch, LAMBDA record : record.to = node)

\* the member that most recently addressed the channel is n
LastSpeakerIs(n) ==
    /\ Len(AddressedTo(chats, route.from)) > 0
    /\ Last(AddressedTo(chats, route.from)).from = n

\* C12: the member that most recently addressed the channel is never the
\* speaker selected for the very next turn, whatever the provider answers,
\* unless it is the only member with rounds left.
C12_LastSpeakerNotReselected ==
    [][ \A n \in AgentNames :
            ( /\ SpeakerSelected(n)
              /\ n \in Members(route.from)
              /\ LastSpeakerIs(n) )
            => EligibleMembers(chats, route.from) = {n}
      ]_vars

\* C13: the speaker the selection returns is always a member of the channel
\* whose round budget is not exhausted; a provider answer naming a registered
\* agent outside this set is not used.
C13_SpeakerIsCandidate ==
    [][ \A n \in AgentNames :
            SpeakerSelected(n) => n \in EligibleMembers(chats, route.from)
      ]_vars

----------------------------------------------------------------------------
(* Round limits of channels *)

\* the ledger right after the reply c of this step
AfterReply(c) == Append(chats, ChatRecord(route.from, route.to, c, "success"))

\* C14: when an endpoint of the route is a channel the limit that ends the
\* conversation is the channel's maxRounds, not the global one: with a global
\* maxRounds below the channel's, a member's reply to the channel that leaves
\* the member, and some other member, below the channel's limit does not
\* terminate the conversation; the channel relays it.
C14_ChannelLimitGoverns ==
    [][ ( /\ RepliesWith(PlainText)
          /\ route.to \in DOMAIN channels
          /\ maxRounds < getChannelConfig(route.to).maxRounds
          /\ Rounds(AfterReply(PlainText), route.from, route.to)
                 < getChannelConfig(route.to).maxRounds
          /\ \E m \in Members(route.to) \ {route.from} :
                 Rounds(AfterReply(PlainText), route.to, m)
                     < getChannelConfig(route.to).maxRounds )
        => pc' = "select"
      ]_vars

----------------------------------------------------------------------------
(* Interrupts after a direct reply *)

MessageEvent(c) == Event("message", route.from, route.to, c, NoError)

InterruptEvent(r) == Event("interrupt", r.from, r.to, NoContent, NoError)

InterruptRecord(r) == ChatRecord(r.from, r.to, NoContent, "interrupt")

\* the step appends the reply c and then halts the dispatch with the interrupt
\* record for the reversed route, without a further provider call
HaltsInterrupted(c) ==
    /\ chats' = Append(AfterReply(c), InterruptRecord(Reverse(route)))
    /\ events' = events \o <<MessageEvent(c), InterruptEvent(Reverse(route))>>
    /\ pc' = "idle"
    /\ calls' = calls
    /\ outcome' = Returned

\* C15: after a direct reply from x to y that is neither TERMINATE nor
\* round-limited, when y is an agent whose interrupt policy resolves to ALWAYS
\* the engine appends the interrupt record {from: y, to: x} right after the
\* reply, emits one interrupt event and halts without calling the provider
\* for y.
C15_AlwaysPausesRecipient ==
    [][ \A c \in ReplyTexts \ {TERMINATE} :
            ( /\ RepliesWith(c)
              /\ BelowRoundLimit(c)
              /\ route.to \in DOMAIN agents
              /\ ResolvedPolicy(route.to) = "ALWAYS" )
            => HaltsInterrupted(c)
      ]_vars

C15_Witness ==
    /\ pc = "idle"
    /\ outcome = Returned
    /\ Len(chats) >= 2
    /\ LET reply == chats[Len(chats) - 1]
       IN  /\ reply.state = "success" /\ reply.content = PlainText
           /\ reply.from \in DOMAIN agents /\ reply.to \in DOMAIN agents
           /\ ResolvedPolicy(reply.to) = "ALWAYS"
           /\ Last(chats) = InterruptRecord(Route(reply.to, reply.from))
    /\ Last(events).type = "interrupt"

\* C16 as stated: whenever a direct reply equals INTERRUPT the dispatch halts
\* with an interrupt record for the reversed route as last ledger entry.
C16_Original ==
    [][ RepliesWith(INTERRUPT) =>
            /\ pc' = "idle"
            /\ Last(chats') = InterruptRecord(Reverse(route))
      ]_vars

\* C16: any agent, also one whose policy and whose recipient's policy are
\* NEVER, interrupts by replying INTERRUPT as long as that reply does not
\* bring the pair to the global round limit: the dispatch halts with the
\* interrupt record for the reversed route as last ledger entry.  A reply
\* that reaches the limit ends the conversation instead: terminate is
\* emitted and the reply stays the last entry.
C16_InterruptReplyPauses ==
    [][ RepliesWith(INTERRUPT) =>
            IF BelowRoundLimit(INTERRUPT)
            THEN HaltsInterrupted(INTERRUPT)
            ELSE /\ chats' = AfterReply(INTERRUPT)
                 /\ pc' = "idle"
                 /\ Last(events') = Event("terminate", NoName, route.to,
                                          NoContent, NoError)
      ]_vars

C16_Witness ==
    /\ pc = "idle"
    /\ outcome = Returned
    /\ Len(chats) >= 2
    /\ LET reply == chats[Len(chats) - 1]
       IN  /\ reply.state = "success" /\ reply.content = INTERRUPT
           /\ reply.from \in DOMAIN agents /\ reply.to \in DOMAIN agents
           /\ ResolvedPolicy(reply.from) = "NEVER"
           /\ ResolvedPolicy(reply.to) = "NEVER"
           /\ defaultInterrupt = "NEVER"
           /\ Last(chats) = InterruptRecord(Route(reply.to, reply.from))
    /\ Last(events).type = "interrupt"

----------------------------------------------------------------------------
(* The channel-relay step *)

\* the member records of the channel have used up its round budget
BudgetExhausted(channel) ==
    Len(SelectSeq(chats, LAMBDA record :
            /\ record.state = "success"
            /\ record.to = channel
            /\ record.from \in Members(channel)))
        >= getChannelConfig(channel).maxRounds

\* the relay step pauses before the speaker's turn
SpeakerPauses(speaker) ==
    /\ chats' = Append(chats, InterruptRecord(Route(speaker, route.from)))
    /\ events' = Append(events, InterruptEvent(Route(speaker, route.from)))
    /\ pc' = "idle"
    /\ calls' = calls
    /\ outcome' = Returned

\* the relay step asks the speaker for its reply to the channel
SpeakerReplies(speaker) ==
    /\ chats' = chats
    /\ events' = events
    /\ pc' = "reply"
    /\ route' = Route(speaker, route.from)
    /\ calls' = calls + 1

\* the relay step ends the conversation without appending
RelayTerminates ==
    /\ chats' = chats
    /\ events' = Append(events, Event("terminate", NoName, route.to, NoContent, NoError))
    /\ pc' = "idle"
    /\ calls' = calls
    /\ outcome' = Returned

\* the step resumes the awaited speaker selection with the provider's answer
SelectionResolves ==
    /\ pc = "select"
    /\ outcome'.status # "thrown"
    /\ ~(Len(chats') > Len(chats) /\ Last(chats').state = "error")

\* C17 as stated: in a channel-relay step the engine pauses with the interrupt
\* record {from: speaker, to: channel} when the selected speaker's policy
\* resolves to ALWAYS or the channel's round budget is exhausted, and lets the
\* speaker reply otherwise.  The step is that prescribed for one of the
\* registered agents, the names the selection may return (speakers whose own
\* setting is overridden by an engine default of ALWAYS may pause as well,
\* which is C11's matter).
C17_Original ==
    [][ SelectionResolves =>
            \E speaker \in DOMAIN agents :
                IF \/ ResolvedPolicy(speaker) = "ALWAYS"
                   \/ BudgetExhausted(route.from)
                THEN SpeakerPauses(speaker)
                ELSE \/ SpeakerReplies(speaker)
                     \/ defaultInterrupt = "ALWAYS" /\ SpeakerPauses(speaker)
      ]_vars

\* C17: in a channel-relay step, when the selected speaker's policy resolves
\* to ALWAYS the engine appends the interrupt record {from: speaker, to:
\* channel}, emits interrupt and halts, whatever the round budget.  For any
\* other speaker, when the channel's round budget is exhausted it emits
\* terminate for the node the channel was relaying for and halts without
\* appending, and with budget left it lets the speaker reply (speakers whose
\* own setting is overridden by an engine default of ALWAYS may pause as well,
\* which is C11's matter).
C17_RelayStep ==
    [][ SelectionResolves =>
            \E speaker \in DOMAIN agents :
                IF ResolvedPolicy(speaker) = "ALWAYS"
                THEN SpeakerPauses(speaker)
                ELSE \/ IF BudgetExhausted(route.from)
                        THEN RelayTerminates
                        ELSE SpeakerReplies(speaker)
                     \/ defaultInterrupt = "ALWAYS" /\ SpeakerPauses(speaker)
      ]_vars

\* a speaker with policy ALWAYS paused although the members had used up the
\* channel's round budget
C17_Witness ==
    /\ pc = "idle"
    /\ outcome = Returned
    /\ Len(chats) > 0 /\ Len(events) > 0
    /\ Last(chats).state = "interrupt"
    /\ Last(chats).to \in DOMAIN channels
    /\ Last(chats).from \in Members(Last(chats).to)
    /\ ResolvedPolicy(Last(chats).from) = "ALWAYS"
    /\ Last(events) = InterruptEvent(Route(Last(chats).from, Last(chats).to))
    /\ channelRounds(Front(chats), Last(chats).to)
           >= getChannelConfig(Last(chats).to).maxRounds

----------------------------------------------------------------------------
(* A channel with no member left to speak *)

TerminateEvent(node) == Event("terminate", NoName, node, NoContent, NoError)

\* no member of the channel has rounds left with it in ledger ch
NoneEligible(ch, channel) == EligibleMembers(ch, channel) = {}

\* the message start() or continue(feedback) records in this step
Recorded == chats'[Len(chats')]

\* C18: a channel-relay step entered while no member of the channel is
\* eligible to speak emits terminate with the channel's name, appends nothing
\* after the message that entered it, calls no provider and halts; the
\* provider is never asked to select among no member.
C18_NoEligibleMember ==
    [][ /\ pc' = "select" => ~NoneEligible(chats', route'.from)
        /\ ( /\ IsCall("start")
             /\ Len(chats') = Len(chats) + 1
             /\ Recorded.to \in DOMAIN channels
             /\ NoneEligible(chats', Recorded.to) )
           => /\ pc' = "idle"
              /\ outcome' = Returned
              /\ calls' = 0
              /\ Last(events') = TerminateEvent(Recorded.to)
        /\ ( /\ IsCall("continue")
             /\ TailIs("interrupt")
             /\ Truthy(op'.feedback)
             /\ Last(chats).to \in DOMAIN channels
             /\ ~hasReachedMaximumRounds(Front(chats), Last(chats).from, Last(chats).to)
             /\ NoneEligible(Append(Front(chats),
                                    ChatRecord(Last(chats).from, Last(chats).to,
                                               op'.feedback, "success")),
                             Last(chats).to) )
           => /\ pc' = "idle"
              /\ outcome' = Returned
              /\ calls' = 0
              /\ chats' = Append(Front(chats),
                                 ChatRecord(Last(chats).from, Last(chats).to,
                                            op'.feedback, "success"))
              /\ Last(events') = TerminateEvent(Last(chats).to)
      ]_vars

C18_Witness ==
    /\ pc = "idle"
    /\ op.name = "start"
    /\ outcome = Returned
    /\ calls = 0
    /\ Len(chats) = Len(before) + 1
    /\ Last(chats).to \in DOMAIN channels
    /\ NoneEligible(chats, Last(chats).to)
    /\ events = <<Event("message", Last(chats).from, Last(chats).to, SeedText, NoError),
                  Event("start", Last(chats).from, Last(chats).to, SeedText, NoError),
                  TerminateEvent(Last(chats).to)>>

\* the reply c of this step is addressed to a channel whose only member with
\* rounds left is the replier itself, the member that addressed it last
OnlyLastSpeakerLeft(c) ==
    /\ RepliesWith(c)
    /\ BelowRoundLimit(c)
    /\ route.to \in DOMAIN channels
    /\ EligibleMembers(AfterReply(c), route.to) = {route.from}

\* C19 as stated: when the member that most recently addressed the channel is
\* the only member whose round budget is not exhausted, the selection keeps it
\* in the candidate set and goes on to select it instead of reporting no
\* speaker.
C19_Original ==
    [][ OnlyLastSpeakerLeft(PlainText) => pc' = "select" ]_vars

\* C19: when the member that most recently addressed the channel is the only
\* member whose round budget is not exhausted, the selection removes it like
\* any last speaker and reports no speaker: the engine emits terminate with
\* the channel's name and halts without asking the provider.  Whenever the
\* provider is asked to select, a member other than the last speaker has
\* rounds left.
C19_LastSpeakerAlwaysRemoved ==
    [][ /\ OnlyLastSpeakerLeft(PlainText) =>
            /\ chats' = AfterReply(PlainText)
            /\ pc' = "idle"
            /\ outcome' = Returned
            /\ calls' = calls
            /\ Last(events') = TerminateEvent(route.to)
        /\ pc = "select" =>
            \E m \in EligibleMembers(chats, route.from) : ~LastSpeakerIs(m)
      ]_vars

C19_Witness ==
    /\ pc = "idle"
    /\ outcome = Returned
    /\ Len(chats) > 0 /\ Len(events) > 0
    /\ Last(chats).state = "success"
    /\ Last(chats).content = PlainText
    /\ Last(chats).to \in DOMAIN channels
    /\ EligibleMembers(chats, Last(chats).to) = {Last(chats).from}
    /\ Last(events) = TerminateEvent(Last(chats).to)
    /\ calls = 1

----------------------------------------------------------------------------
(* Function calls *)

\* the step resumes the awaited reply with a call of the function name
CallsFunction(name) ==
    /\ pc = "reply"
    /\ Len(messages') = Len(messages) + 1
    /\ Last(messages').name = name

\* the step ran a handler
HandlerInvoked == Last(messages').content # NotFound

Offered(agent) ==
    {resolvedFunctions(agent)[i] : i \in 1..Len(resolvedFunctions(agent))}

\* C20: a function handler is invoked only if the name the provider returns
\* is in the replying agent's resolved function set; for any other name, also
\* one that is registered but not listed by the agent, no handler runs and the
\* completion is requested again with a 'not found' function message.
C20_OnlyOfferedFunctionsRun ==
    [][ \A name \in FunctionNames :
            CallsFunction(name) =>
                /\ HandlerInvoked <=> name \in Offered(route.from)
                /\ name \notin Offered(route.from) =>
                       /\ Last(messages') = FunctionMessage(name, NotFound)
                       /\ calls' = calls + 1
                       /\ pc' = "reply"
      ]_vars

\* the function calls nested in the awaited turn
NestedCalls == Len(messages)

\* C21: the number of function calls nested in one turn is bounded by a
\* configured maximum, so a turn ends even when the provider answers every
\* completion with a function call: the engine stops the chain before the
\* depth MaxFunctionCalls up to which the provider is followed here.
C21_NestedCallsBounded == pc = "reply" => NestedCalls < MaxFunctionCalls

----------------------------------------------------------------------------
(* The ledger *)

IsPrefix(s, t) == Len(s) <= Len(t) /\ SubSeq(t, 1, Len(s)) = s

Successes(ch) == SelectSeq(ch, LAMBDA record : record.state = "success")

\* the step removed the last record of the ledger
Pops == Len(chats) > 0 /\ ~IsPrefix(chats, chats')

\* C22: a step changes the ledger only by removing its last record and by
\* appending records at its end; a removal happens only in continue() and
\* retry() and only removes an interrupt or error record.  Success records
\* are never removed, modified or reordered: those of a state are a prefix of
\* those of the next state.
C22_AppendOrPopLast ==
    [][ /\ Pops =>
            /\ IsCall("continue") \/ IsCall("retry")
            /\ Last(chats).state \in {"interrupt", "error"}
            /\ IsPrefix(Front(chats), chats')
        /\ IsPrefix(Successes(chats), Successes(chats'))
      ]_vars

\* continue(feedback) removed the interrupt record and the dispatch appended
\* the feedback and a further record
C22_Witness ==
    /\ op.name = "continue"
    /\ Len(before) > 1
    /\ Last(before).state = "interrupt"
    /\ Len(chats) = Len(before) + 1
    /\ IsPrefix(Front(before), chats)
    /\ chats[Len(before)].state = "success"
    /\ Successes(before) # <<>>
    /\ IsPrefix(Successes(before), Successes(chats))

----------------------------------------------------------------------------
(* start() *)

StartEvents(evs) == SelectSeq(evs, LAMBDA e : e.type = "start")

\* the step appends the first record of the dispatch start() began
FirstTurnAfterSeed ==
    /\ pc # "idle"
    /\ op.name = "start"
    /\ Len(chats) = Len(before) + 1
    /\ Len(chats') > Len(chats)
    /\ chats'[Len(chats) + 1].state # "error"

\* C23: start(message) appends message as a success record, emits the start
\* event exactly once and then dispatches the reversed route: the first turn
\* after the seed is produced by message.to and addressed to message.from, or,
\* when message.to is a channel, by a member of it and addressed to the channel.
C23_StartDispatchesReversed ==
    [][ /\ IsCall("start") =>
            LET seed == chats'[Len(chats) + 1]
            IN  /\ IsPrefix(chats, chats')
                /\ seed.state = "success"
                /\ events'[1] = Event("message", seed.from, seed.to, seed.content, NoError)
                /\ events'[2] = Event("start", seed.from, seed.to, seed.content, NoError)
                /\ Len(StartEvents(events')) = 1
                /\ pc' # "idle" => route' = Route(seed.to, seed.from)
        /\ FirstTurnAfterSeed =>
            LET seed == chats[Len(chats)]
                turn == chats'[Len(chats) + 1]
            IN  /\ Len(StartEvents(events')) = 1
                /\ IF seed.to \in DOMAIN channels
                   THEN turn.to = seed.to /\ turn.from \in Members(seed.to)
                   ELSE turn.from = seed.to /\ turn.to = seed.from
      ]_vars

----------------------------------------------------------------------------
(* Dispatches in flight *)

\* the provider calls (completions, with the handlers they drive) pending
InFlight == Len(others) + (IF pc = "idle" THEN 0 ELSE 1)

\* C24: for one engine at most one dispatch step is in flight at any time:
\* there is never more than one pending provider completion, also when
\* start() is called while an earlier call still awaits the provider.
C24_OneDispatchInFlight == InFlight <= 1

----------------------------------------------------------------------------
(* After terminate *)

\* the step halts the dispatch with a terminate event
HaltsTerminated ==
    /\ pc' = "idle"
    /\ Len(events') > 0
    /\ Last(events').type = "terminate"
    /\ events' # events

\* the dispatch that halted last emitted terminate, and nothing was started since
Terminated ==
    /\ pc = "idle"
    /\ Len(events) > 0
    /\ Last(events).type = "terminate"

\* C25: after a terminate event the chat cannot be continued: when the
\* dispatch that emitted terminate has halted the last ledger record is a
\* success record, so continue() and retry() fail, leaving the ledger as it
\* is, until start() is called again.
C25_TerminatedStaysTerminated ==
    [][ /\ HaltsTerminated => Len(chats') > 0 /\ Last(chats').state = "success"
        /\ (Terminated /\ IsCall("continue")) =>
               /\ outcome' = Thrown(EngineError("No chat to continue"))
               /\ chats' = chats
        /\ (Terminated /\ IsCall("retry")) =>
               /\ outcome' = Thrown(EngineError("No chat to retry"))
               /\ chats' = chats
      ]_vars

\* retry() failed on a direct conversation that the round limit had terminated
C25_Witness ==
    /\ pc = "idle"
    /\ op.name = "retry"
    /\ outcome = Thrown(EngineError("No chat to retry"))
    /\ chats = before
    /\ Len(chats) > 0
    /\ Last(chats).state = "success"
    /\ Last(chats).content = PlainText
    /\ Last(chats).to \in DOMAIN agents
    /\ hasReachedMaximumRounds(chats, Last(chats).from, Last(chats).to)

----------------------------------------------------------------------------
(* Whole conversations *)

\* start() was called on an empty ledger and its dispatch has halted
StartedFromEmpty ==
    /\ pc = "idle"
    /\ op.name = "start"
    /\ outcome = Returned
    /\ before = <<>>
    /\ Len(chats) > 0

\* the provider answered every request of the dispatch with plain text
OnlyPlainReplies ==
    \A i \in 2..Len(chats) :
        chats[i].state # "error" /\ chats[i].content \notin {TERMINATE, INTERRUPT}

\* C26: with an empty initial ledger, a global maxRounds N >= 2, two agents
\* that never interrupt and a provider that never returns a sentinel, one
\* start() calls the provider exactly N - 1 times, leaves exactly N success
\* records and ends with a terminate event.
C26_DirectConversationLength ==
    ( /\ StartedFromEmpty
      /\ OnlyPlainReplies
      /\ maxRounds >= 2
      /\ chats[1].from \in DOMAIN agents /\ chats[1].to \in DOMAIN agents
      /\ ~shouldAgentInterrupt(chats[1].from)
      /\ ~shouldAgentInterrupt(chats[1].to) )
    => /\ calls = maxRounds - 1
       /\ Len(chats) = maxRounds
       /\ Successes(chats) = chats
       /\ Last(events).type = "terminate"

C26_Witness ==
    /\ StartedFromEmpty
    /\ OnlyPlainReplies
    /\ maxRounds = MaxGlobalRounds
    /\ ~shouldAgentInterrupt(chats[1].from)
    /\ ~shouldAgentInterrupt(chats[1].to)
    /\ Len(chats) = maxRounds
    /\ calls = maxRounds - 1
    /\ Last(events).type = "terminate"

\* the dispatch was a relay among members of the channel that do not pause
OnlyMemberReplies ==
    \A i \in 2..Len(chats) :
        /\ chats[i].state = "success"
        /\ chats[i].to = chats[1].to
        /\ chats[i].from \in Members(chats[1].to)
        /\ ~shouldAgentInterrupt(chats[i].from)

\* C27: for a channel with maxRounds M whose members never interrupt, started
\* by an agent that is not a member, with a provider that answers the speaker
\* selection with member names and replies with plain text, one start() ends
\* with exactly M + 1 ledger records: the seed and M member replies addressed
\* to the channel.
C27_ChannelConversationLength ==
    ( /\ StartedFromEmpty
      /\ chats[1].to \in DOMAIN channels
      /\ chats[1].from \in DOMAIN agents
      /\ chats[1].from \notin Members(chats[1].to)
      /\ OnlyPlainReplies
      /\ OnlyMemberReplies )
    => Len(chats) = getChannelConfig(chats[1].to).maxRounds + 1

----------------------------------------------------------------------------
(* Initial chats *)

\* the records of ledger ch the engine appended itself
Appended(ch) == SubSeq(ch, Len(initial) + 1, Len(ch))

\* C28: the records passed as initial chats stay at the head of the ledger,
\* unmodified and in order, after start(), and they count toward the round
\* limit of their pair exactly like the records the engine appends: a reply
\* that brings the pair, initial records included, to the limit terminates.
C28_InitialChatsKept ==
    [][ /\ (op'.name = "start" /\ IsPrefix(initial, chats)) => IsPrefix(initial, chats')
        /\ \A c \in ReplyTexts :
               ( /\ RepliesWith(c)
                 /\ Rounds(AfterReply(c), route.from, route.to) >= maxRounds )
               => /\ chats' = AfterReply(c)
                  /\ HaltsTerminated
      ]_vars

\* a start() on top of the initial record ended at the round limit, which the
\* records appended by the engine alone had not reached
C28_Witness ==
    /\ Terminated
    /\ op.name = "start"
    /\ initial # <<>>
    /\ IsPrefix(initial, chats)
    /\ Last(chats).state = "success"
    /\ Last(chats).content = PlainText
    /\ Rounds(chats, Last(chats).from, Last(chats).to) = maxRounds
    /\ Rounds(Appended(chats), Last(chats).from, Last(chats).to) < maxRounds

----------------------------------------------------------------------------
(* Records and their events *)

\* the events a step emits
NewEvents == IF pc = "idle" THEN events' ELSE SubSeq(events', Len(events) + 1, Len(events'))

\* the records a step appends, after the pop of continue() or retry() if any
NewRecords ==
    LET kept == IF Pops THEN Front(chats) ELSE chats
    IN  SubSeq(chats', Len(kept) + 1, Len(chats'))

\* the state of the record an event announces
RecordState(type) ==
    CASE type = "message" -> "success"
      [] type = "interrupt" -> "interrupt"
      [] type = "replyError" -> "error"

\* the events of evs that announce a record, as the records they announce
Announced(evs) ==
    LET about == SelectSeq(evs, LAMBDA e : e.type \in {"message", "interrupt", "replyError"})
    IN  [i \in 1..Len(about) |->
            ChatRecord(about[i].from, about[i].to, about[i].content,
                       RecordState(about[i].type))]

\* C29: every append to the ledger is followed, before any other append, by
\* exactly one event of the matching kind (message for a success record,
\* interrupt for an interrupt record, replyError for an error record), so the
\* message events are as many as the success records the engine appends.
C29_EachAppendAnnounced ==
    [][ /\ Announced(NewEvents) = NewRecords
        /\ Len(SelectSeq(NewEvents, LAMBDA e : e.type = "message"))
           = Len(SelectSeq(NewRecords, LAMBDA record : record.state = "success"))
      ]_vars

\* a reply was appended and announced, then the pause of its recipient
C29_Witness ==
    /\ Len(chats) >= 2
    /\ Len(events) >= 2
    /\ chats[Len(chats) - 1].state = "success"
    /\ Last(chats).state = "interrupt"
    /\ events[Len(events) - 1].type = "message"
    /\ events[Len(events) - 1].content = chats[Len(chats) - 1].content
    /\ Last(events).type = "interrupt"
    /\ Last(events).from = Last(chats).from

----------------------------------------------------------------------------
(* Termination *)

\* a start() is waiting for the provider
StartRunning == op.name = "start" /\ pc # "idle"

\* the start() has halted with a terminate event or an interrupt record
StartHalted ==
    /\ op.name = "start"
    /\ pc = "idle"
    /\ \/ \E i \in 1..Len(events) : events[i].type = "terminate"
       \/ (chats # <<>> /\ Last(chats).state = "interrupt")

\* C30: with a finite maxRounds and a provider that answers every request
\* with text (no function calls, no errors), every start() eventually halts
\* with a terminate event or an interrupt record, in direct and in channel
\* conversations.
C30_StartHalts == StartRunning ~> StartHalted

\* a channel conversation started by start() has halted by a terminate event
\* after replies of two members
C30_Witness ==
    /\ StartHalted
    /\ Len(chats) > Len(before)
    /\ chats[Len(before) + 1].to \in ChannelNames
    /\ Last(events).type = "terminate"
    /\ \E i, j \in 1..Len(chats) :
           /\ chats[i].to \in ChannelNames
           /\ chats[j].to \in ChannelNames
           /\ chats[i].from \in Members("g")
           /\ chats[j].from \in Members("g")
           /\ chats[i].from # chats[j].from

----------------------------------------------------------------------------
(* Errors of the speaker selection *)

\* the last record is the error of a speaker selection
SelectionFailed ==
    /\ chats # <<>>
    /\ Last(chats).state = "error"
    /\ Last(chats).from \in DOMAIN channels

\* C31: a classified API error raised while the provider selects the next
\* speaker of a channel appends the error record {from: channel, to: the other
\* endpoint}, emits the error event and halts the dispatch; a following
\* retry() removes the record and runs the speaker selection of that channel
\* again.
C31_SelectionErrorRetried ==
    [][ /\ \A error \in Errors :
               (chatSelectRejected(error) /\ instanceofAPIError(error))
               => /\ route.from \in DOMAIN channels
                  /\ chats' = Append(chats, ChatRecord(route.from, route.to,
                                                      error.message, "error"))
                  /\ events' = Append(events, Event("replyError", route.from, route.to,
                                                    error.message, error))
                  /\ pc' = "idle"
                  /\ outcome' = Returned
        /\ (IsCall("retry") /\ SelectionFailed)
           => /\ chats' = Front(chats)
              /\ pc' = "select"
              /\ route' = Route(Last(chats).from, Last(chats).to)
              /\ outcome' = Pending
      ]_vars

\* retry() after a failed selection waits for the selection again
C31_Witness ==
    /\ op.name = "retry"
    /\ pc = "select"
    /\ before # <<>>
    /\ Last(before).state = "error"
    /\ Last(before).from = route.from
    /\ Last(before).to = route.to
    /\ chats = Front(before)

----------------------------------------------------------------------------
(* Authors of the records *)

\* C32: no success record of the ledger has a channel as its author: after any
\* sequence of start() by agents, continue(feedback) and retry(), the from of
\* every success record is an agent; a turn triggered through a channel is
\* attributed to the selected member.
C32_NoChannelAuthor ==
    \A i \in 1..Len(chats) :
        chats[i].state = "success" => chats[i].from \in DOMAIN agents

----------------------------------------------------------------------------
(* Unregistered participants *)

Registered == DOMAIN agents \cup DOMAIN channels

\* the message of the last start(), once start() has settled
StartSettled == op.name = "start" /\ pc = "idle" /\ Len(chats) > Len(before)

StartMessage == chats[Len(before) + 1]

\* C33: start(message) is accepted only when message.from and message.to are
\* both registered agents or channels: a start() whose from or to is not
\* registered fails.
C33_StartRequiresRegistered ==
    (StartSettled /\ ~({StartMessage.from, StartMessage.to} \subseteq Registered))
    => outcome.status = "thrown"

----------------------------------------------------------------------------
(* Paused records and the round count *)

\* the pairs that have a record in ledger ch
PairsIn(ch) == {Route(ch[i].from, ch[i].to) : i \in 1..Len(ch)}

\* C34: round counting ignores the records that are not in state success: an
\* error or interrupt record, while present and after retry() or continue()
\* popped it, never changes the result of the round-limit check of any pair,
\* and a failed and retried turn consumes exactly one round: the failure and
\* the retry() none, the reply one.
C34_PausedRecordsNotCounted ==
    [][ LET successes == Successes(chats')
        IN  /\ chats' # successes
               => \A p \in PairsIn(chats') :
                      getHistory(chats', p.from, p.to)
                      = getHistory(successes, p.from, p.to)
            /\ (chats' # chats /\ successes = Successes(chats))
               => \A p \in PairsIn(chats) \cup PairsIn(chats') :
                      hasReachedMaximumRounds(chats', p.from, p.to)
                      = hasReachedMaximumRounds(chats, p.from, p.to)
            /\ ( /\ pc = "reply"
                 /\ Len(successes) > Len(Successes(chats)) )
               => Rounds(chats', route.from, route.to)
                  = Rounds(chats, route.from, route.to) + 1
      ]_vars

\* a turn failed, was retried and its reply arrived: the pair has one round
\* more than before the failure
C34_Witness ==
    /\ op.name = "retry"
    /\ pc = "idle"
    /\ before # <<>>
    /\ Last(before).state = "error"
    /\ Len(chats) >= Len(before)
    /\ chats[Len(before)] = ChatRecord(Last(before).from, Last(before).to,
                                       PlainText, "success")
    /\ Rounds(chats, Last(before).from, Last(before).to)
       = Rounds(before, Last(before).from, Last(before).to) + 1

----------------------------------------------------------------------------
(* Function calls and the ledger *)

\* the step is a function call made inside a turn
FunctionCallStep == pc = "reply" /\ Len(messages') > Len(messages)

\* the step ends a turn: the awaited completion resolved with text
TurnEnds == pc = "reply" /\ chats' # chats /\ chats'[Len(chats) + 1].state = "success"

\* C35: one turn appends exactly one success record, whatever the number of
\* function calls made inside it: function-call requests, handler results and
\* 'not found' messages go to the provider only and never appear in the ledger,
\* and the success record is appended only when the provider returned text.
C35_OneRecordPerTurn ==
    [][ /\ FunctionCallStep => (chats' = chats /\ events' = events)
        /\ TurnEnds
           => /\ Len(Successes(chats')) = Len(Successes(chats)) + 1
              /\ chats'[Len(chats) + 1].from = route.from
              /\ chats'[Len(chats) + 1].to = route.to
              /\ chats'[Len(chats) + 1].content \in ReplyTexts
        /\ \A i \in 1..Len(chats') : chats'[i].content \notin {HandlerResult, NotFound}
      ]_vars

\* a start() whose only turn made two function calls has ended with the seed
\* and one reply in the ledger
C35_Witness ==
    /\ op.name = "start"
    /\ pc = "idle"
    /\ calls >= 3
    /\ Len(chats) = Len(before) + 2
    /\ Last(chats).state = "success"
    /\ Last(chats).content = PlainText
    /\ resolvedFunctions(Last(chats).from) # <<>>

----------------------------------------------------------------------------
(* The outcome of a dispatch *)

\* the dispatch of the last API call has returned without throwing
DispatchReturned == pc = "idle" /\ outcome.status = "returned"

\* the terminate events the dispatch emitted
TerminateEvents == SelectSeq(events, LAMBDA e : e.type = "terminate")

\* how many of the three outcomes the halted dispatch shows
OutcomesShown ==
    (IF Len(TerminateEvents) > 0 THEN 1 ELSE 0)
    + (IF TailIs("interrupt") THEN 1 ELSE 0)
    + (IF TailIs("error") THEN 1 ELSE 0)

\* C36: every dispatch started by start(), continue() or retry() that returns
\* without throwing halts with exactly one outcome: one terminate event
\* emitted, or an interrupt record as last ledger entry, or an error record as
\* last ledger entry; never two of them and never none.
C36_ExactlyOneOutcome ==
    DispatchReturned => (OutcomesShown = 1 /\ Len(TerminateEvents) <= 1)

\* a continue() whose dispatch made a provider call has halted on an error record
C36_Witness ==
    /\ DispatchReturned
    /\ op.name = "continue"
    /\ calls >= 1
    /\ TailIs("error")
    /\ TerminateEvents = <<>>

----------------------------------------------------------------------------
(* Direct conversations *)

\* the route of the awaited reply joins two agents
DirectTurn == pc = "reply" /\ route.from \in DOMAIN agents /\ route.to \in DOMAIN agents

\* the last start() was sent from an agent to an agent and has returned
DirectStartReturned ==
    /\ StartSettled
    /\ outcome = Returned
    /\ StartMessage.from \in DOMAIN agents
    /\ StartMessage.to \in DOMAIN agents

\* the records the last start() appended
SinceStart == SubSeq(chats, Len(before) + 1, Len(chats))

\* the success records of sequence ch alternate direction
Alternate(ch) ==
    \A i \in 2..Len(ch) :
        ch[i].state = "success" => (ch[i].from = ch[i - 1].to /\ ch[i].to = ch[i - 1].from)

\* C37 as stated: in a direct conversation the success records appended
\* within one dispatch alternate direction, and the ledger holds 1 + (number
\* of provider calls) records of the dispatch when no interrupt or error
\* occurs.
C37_Original ==
    DirectStartReturned
    => /\ Alternate(SinceStart)
       /\ Successes(SinceStart) = SinceStart => Len(SinceStart) = 1 + calls

\* C37: in a direct conversation between two agents each reply is recorded
\* from the replying agent to the other one and answers a success record of
\* the opposite direction, and the next reply is asked of the other agent; a
\* provider call that returns text adds exactly one record and a provider call
\* that returns a function call adds none, so a start() without interrupt or
\* error appends 1 + (number of provider calls that returned text) records.
C37_DirectAlternates ==
    [][ /\ (DirectTurn /\ FunctionCallStep)
           => (chats' = chats /\ calls' = calls + 1 /\ route' = route)
        /\ (DirectTurn /\ TurnEnds)
           => /\ chats'[Len(chats) + 1].from = route.from
              /\ chats'[Len(chats) + 1].to = route.to
              /\ chats # <<>>
              /\ Last(chats).state = "success"
              /\ Last(chats).from = route.to
              /\ Last(chats).to = route.from
              /\ Len(Successes(chats')) = Len(Successes(chats)) + 1
              /\ calls' = calls + (IF pc' = "idle" THEN 0 ELSE 1)
              /\ pc' # "idle" => (pc' = "reply" /\ route' = [from |-> route.to,
                                                            to |-> route.from])
        /\ (IsCall("start") /\ pc' = "reply")
           => (Len(chats') = Len(chats) + 1 /\ calls' = 1)
      ]_vars

\* a start() between two agents appended the seed and two replies, made more
\* provider calls than replies and ended without interrupt or error
C37_Witness ==
    /\ DirectStartReturned
    /\ Len(SinceStart) = 3
    /\ Successes(SinceStart) = SinceStart
    /\ Alternate(SinceStart)
    /\ calls > 2

----------------------------------------------------------------------------
(* A continue() refused at the round limit *)

\* C38: a continue() call that fails because the route has reached its
\* maximum rounds leaves the ledger unchanged: the interrupt record is still
\* the last entry, so the failed call can be observed and repeated with the
\* same result.
C38_RefusedContinueKeepsLedger ==
    [][ (IsCall("continue") /\ outcome' = MaximumRoundsReached)
        => (chats' = chats /\ Last(chats').state = "interrupt")
      ]_vars

====
